---- MODULE Spec2Model ----
(***************************************************************************)
(* The request orchestrator of backend/main.py (register, create role,     *)
(* create chat, send message, bulk-delete chats) over the conversation     *)
(* store, and the context assembler get_qwen_response of                   *)
(* backend/app/llm_service.py.                                             *)
(*                                                                         *)
(* A handler is cut into steps at its commits and at its await: between    *)
(* two steps of one request any step of another request may run.  A        *)
(* handler of several steps holds a request slot while it is under way.    *)
(*                                                                         *)
(* A Python str is a finite sequence of fragments (so that an f-string is  *)
(* a concatenation); None is a value that is no sequence.                  *)
(***************************************************************************)
EXTENDS Integers, Sequences, FiniteSets, TLC

\* ------------------------------------------------------------------ bounds
MaxChats == 2
MaxRows == 6
MaxReqs == 2
MaxUsers == 3

\* ----------------------------------------------------------- python values
None == [i \in {0} |-> "None"]

IsStr(v) == v # None

\* s in t, for two str
Contains(t, s) ==
  \E i \in 1..(Len(t) - Len(s) + 1) : SubSeq(t, i, i + Len(s) - 1) = s

\* ------------------------------------------------ app/llm_service.py:39-80
Fallback == <<"Sorry, I am unable to respond at the moment.">>

Turn(role, content) == [role |-> role, content |-> content]

\* lines 56-59 with example.get(key, "") in place of the key tests
ExampleTurnsBothSides(example) ==
  <<Turn("user", IF "user" \in DOMAIN example THEN example.user ELSE <<>>),
    Turn("assistant", IF "ai" \in DOMAIN example THEN example.ai ELSE <<>>)>>

\* lines 56-59: one example dict, a side only when its key is present
ExampleTurns(example) ==
  (IF "user" \in DOMAIN example THEN <<Turn("user", example.user)>> ELSE <<>>)
  \o (IF "ai" \in DOMAIN example THEN <<Turn("assistant", example.ai)>> ELSE <<>>)

RECURSIVE ExamplesTurns(_)
ExamplesTurns(examples) ==
  IF examples = <<>> THEN <<>>
  ELSE ExampleTurns(Head(examples)) \o ExamplesTurns(Tail(examples))

\* line 54: `if few_shot_examples:` skips None and the empty list
FewShotTurns(few_shot_examples) ==
  IF few_shot_examples = None \/ few_shot_examples = <<>> THEN <<>>
  ELSE ExamplesTurns(few_shot_examples)

\* lines 62-65
HistoryTurn(msg) ==
  Turn(IF msg.sender_type = "user" THEN "user" ELSE "assistant", msg.content)

HistoryTurns(chat_history) ==
  [i \in 1..Len(chat_history) |-> HistoryTurn(chat_history[i])]

\* lines 48-68: the `messages` list handed to the chat-completion call
BuildMessages(system_prompt, chat_history, user_message, few_shot_examples) ==
  <<Turn("system", system_prompt)>>
  \o FewShotTurns(few_shot_examples)
  \o HistoryTurns(chat_history)
  \o <<Turn("user", user_message)>>

\* What `await client.chat.completions.create(...)` can do: raise, or return
\* a completion object.
Raises(exc) == [raises |-> TRUE, exc |-> exc]
Returns(choices) == [raises |-> FALSE, choices |-> choices]
Choice(content) == [message |-> [content |-> content]]

ReplyTexts == {<<"reply">>}

Outcomes ==
  {Raises("APITimeoutError"), Raises("APIStatusError"),
   Returns(<<>>), Returns(None), Returns(<<Choice(None)>>)}
  \cup {Returns(<<Choice(t)>>) : t \in ReplyTexts}

\* the try/except of lines 70-80 handing None back when the call raises
QwenReturnNoFallback(outcome) ==
  IF outcome.raises THEN None
  ELSE IF outcome.choices = None THEN Fallback
  ELSE IF Len(outcome.choices) = 0 THEN Fallback
  ELSE outcome.choices[1].message.content

\* lines 70-80: try: return completion.choices[0].message.content;
\* except Exception: return the fallback.  choices[0] raises TypeError on
\* None and IndexError on the empty list; a None content is returned as is.
QwenReturn(outcome) ==
  IF outcome.raises THEN Fallback
  ELSE IF outcome.choices = None THEN Fallback
  ELSE IF Len(outcome.choices) = 0 THEN Fallback
  ELSE outcome.choices[1].message.content

\* ------------------------------------------------------------ the store
VARIABLES
  users,     \* Identity store: the persisted user rows
  roles,     \* Persona catalog: role id (1..Len) -> role row
  chats,     \* the persisted chat rows
  messages,  \* chat id -> the chat's message rows, in insertion order
  nextChat,  \* the next fresh chat id (ids are uuids: never reused)
  pc,        \* request slot -> where the handler holding it stands
  arg,       \* request slot -> the request's inputs
  loc,       \* request slot -> the handler's locals
  response,  \* the response sent last
  llm        \* a get_qwen_response call on its own: inputs and what it gave

vars == <<users, roles, chats, messages, nextChat, pc, arg, loc, response, llm>>

Reqs == 1..MaxReqs
ChatIds == 1..MaxChats

\* the authenticated callers (auth.get_current_active_user)
Callers == {"alice", "bob"}
Texts == {<<"hi">>}
Titles == {None}

\* The persona catalog the handlers below find: the role of
\* models.create_default_roles(db) (main.py:77-81) and a role that a
\* create_role call (main.py:135-147) added with is_active false.  No handler
\* below writes a role.
Catalog ==
  <<[name |-> <<"Spider-Man">>, system_prompt |-> <<"P1">>,
     few_shot_examples |-> <<[user |-> <<"u1">>, ai |-> <<"a1">>]>>,
     is_active |-> TRUE],
    [name |-> <<"Trainer">>, system_prompt |-> <<"P2">>,
     few_shot_examples |-> <<[user |-> <<"u2">>]>>,
     is_active |-> FALSE]>>

\* the role ids a request may name: those of the catalog and one of no role
RoleIds == 1..(Len(Catalog) + 1)

\* What the session does when the handler reads chat.role_id (line 225) and
\* the chat row is gone: the read raises, or the loaded value is used.
GoneReactions == {"error", "ignore"}
\* What the store does with a message row whose content is NULL.
NullReactions == {"error", "store"}

NoArg == [op |-> "none"]
NoLoc == [at |-> "none"]
NoResponse == [op |-> "none", status |-> 0]
HTTPException(status_code) == [status |-> status_code]

Message(sender_type, content, order_in_chat) ==
  [sender_type |-> sender_type, content |-> content, order_in_chat |-> order_in_chat]

ChatRow(id) == CHOOSE c \in chats : c.id = id
ChatExists(id) == \E c \in chats : c.id = id

\* A message belongs to one chat: the store takes no message row whose
\* chat row is gone.
ParentKeyHolds(chat_id) == ChatExists(chat_id)

\* db.add(message); db.commit()
InsertMessage(chat_id, row) ==
  [messages EXCEPT ![chat_id] = Append(@, row)]

Remove(q, i) == SubSeq(q, 1, i - 1) \o SubSeq(q, i + 1, Len(q))

MinOrder(q) ==
  CHOOSE m \in {q[i].order_in_chat : i \in 1..Len(q)} :
    \A i \in 1..Len(q) : m <= q[i].order_in_chat

\* .order_by(models.Message.order_in_chat).all(): every listing of the rows
\* by non-decreasing index; rows of equal index come in any order.
RECURSIVE OrderedBy(_)
OrderedBy(q) ==
  IF q = <<>> THEN {<<>>}
  ELSE UNION {{<<q[i]>> \o t : t \in OrderedBy(Remove(q, i))} :
              i \in {j \in 1..Len(q) : q[j].order_in_chat = MinOrder(q)}}

RECURSIVE SumLen(_)
SumLen(ids) ==
  IF ids = {} THEN 0
  ELSE LET c == CHOOSE x \in ids : TRUE IN Len(messages[c]) + SumLen(ids \ {c})

\* the rows of the conversation store: the chat rows created so far, the
\* message rows persisted, and the message rows that the handlers under way
\* will still insert (one each)
Rows == (nextChat - 1) + SumLen(ChatIds) + Cardinality({r \in Reqs : pc[r] # "idle"})

TypeOK ==
  /\ nextChat \in 1..(MaxChats + 1)
  /\ \A c \in chats : c.id \in 1..(nextChat - 1)
  /\ DOMAIN messages = ChatIds
  /\ Rows <= MaxRows
  /\ pc \in [Reqs -> {"idle", "create_chat_greeting", "send_llm", "send_ai_write"}]

Init ==
  /\ users = {}
  /\ roles = Catalog
  /\ chats = {}
  /\ messages = [c \in ChatIds |-> <<>>]
  /\ nextChat = 1
  /\ pc = [r \in Reqs |-> "idle"]
  /\ arg = [r \in Reqs |-> NoArg]
  /\ loc = [r \in Reqs |-> NoLoc]
  /\ response = NoResponse
  /\ llm = NoLoc

\* a request of several steps takes the first free slot
FreeSlot(r) == pc[r] = "idle" /\ \A q \in Reqs : pc[q] = "idle" => r <= q

\* the response goes out
Respond(op, result) ==
  response' = [op |-> op] @@ result

\* a handler that answers in its first step holds no slot
Answer(op, result) ==
  /\ Respond(op, result)
  /\ UNCHANGED <<pc, arg, loc>>

\* a handler ends and frees its slot
Finish(r, result) ==
  /\ Respond(arg[r].op, result)
  /\ pc' = [pc EXCEPT ![r] = "idle"]
  /\ arg' = [arg EXCEPT ![r] = NoArg]
  /\ loc' = [loc EXCEPT ![r] = NoLoc]

\* a handler goes on to its next step
Goto(r, a, label, locals) ==
  /\ pc' = [pc EXCEPT ![r] = label]
  /\ arg' = [arg EXCEPT ![r] = a]
  /\ loc' = [loc EXCEPT ![r] = locals]
  /\ UNCHANGED response

\* ------------------------------------------------- main.py:163-189 create_chat
\* line 165: the role, when it exists and is active
ActiveRole(role_id) == role_id \in 1..Len(roles) /\ roles[role_id].is_active

\* line 172
ChatTitle(title, role) ==
  IF title # None /\ title # <<>> THEN title ELSE <<"Chat with ">> \o role.name

\* line 178
Greeting(role) ==
  <<"Hello, I am ">> \o role.name \o <<". How can I help you today?">>

\* lines 165-176: look the role up, insert the chat row, commit
create_chat(r, user, role_id, title) ==
  LET a == [op |-> "create_chat", user |-> user, role_id |-> role_id, title |-> title] IN
  /\ IF ~ActiveRole(role_id)
     THEN /\ Answer("create_chat", HTTPException(404))
          /\ UNCHANGED <<chats, nextChat>>
     ELSE /\ FreeSlot(r)
          /\ nextChat <= MaxChats
          /\ Rows + 2 <= MaxRows
          /\ chats' = chats \cup {[id |-> nextChat, user_id |-> user, role_id |-> role_id,
                                   title |-> ChatTitle(title, roles[role_id])]}
          /\ nextChat' = nextChat + 1
          /\ Goto(r, a, "create_chat_greeting", [at |-> "create_chat", chat_id |-> nextChat])
  /\ UNCHANGED <<users, roles, messages, llm>>

\* lines 178-189: insert the greeting at index 0, commit, return the chat
create_chat_greeting(r) ==
  LET id == loc[r].chat_id
      row == Message("ai", Greeting(roles[arg[r].role_id]), 0) IN
  /\ pc[r] = "create_chat_greeting"
  /\ IF ~ParentKeyHolds(id)
     THEN /\ Finish(r, HTTPException(500))
          /\ UNCHANGED messages
     ELSE /\ messages' = InsertMessage(id, row)
          /\ Finish(r, [status |-> 201])
  /\ UNCHANGED <<users, roles, chats, nextChat, llm>>

\* ------------------------------------------------ main.py:205-258 send_message
\* the ownership filter of line 207 left out
OwnedChatAnyUser(chat_id, user) ==
  \E c \in chats : c.id = chat_id

\* line 207: the chat, when it exists and the caller owns it
OwnedChat(chat_id, user) ==
  \E c \in chats : c.id = chat_id /\ c.user_id = user

\* line 211 with a one-based index
MessageCountOneBased(chat_id) == Len(messages[chat_id]) + 1

\* the index of the last row in place of the count of the rows
MessageCountLastIndex(chat_id) ==
  LET q == messages[chat_id] IN
  IF q = <<>> THEN 0 ELSE q[Len(q)].order_in_chat

\* line 211: .filter(Message.chat_id == chat_id).count()
MessageCount(chat_id) == Len(messages[chat_id])


\* lines 207-222: ownership check, count, insert the user message, commit
send_message(r, user, chat_id, content) ==
  LET a == [op |-> "send_message", user |-> user, chat_id |-> chat_id, content |-> content]
      current_message_count == MessageCount(chat_id) IN
  /\ IF ~OwnedChat(chat_id, user)
     THEN /\ Answer("send_message", HTTPException(404))
          /\ UNCHANGED messages
     ELSE /\ FreeSlot(r)
          /\ Rows + 2 <= MaxRows
          /\ messages' = InsertMessage(chat_id, Message("user", content, current_message_count))
          /\ Goto(r, a, "send_llm",
                  [at |-> "send_message", current_message_count |-> current_message_count,
                   role_id |-> ChatRow(chat_id).role_id])
  /\ UNCHANGED <<users, roles, chats, nextChat, llm>>

\* lines 225-244 and llm_service.py:48-76: the role, the history as persisted
\* now, the turn list, the chat-completion call; the handler then waits
send_message_llm(r) ==
  LET chat_id == arg[r].chat_id
      role_id == loc[r].role_id IN
  /\ pc[r] = "send_llm"
  /\ \E gone \in GoneReactions :
       IF ~ChatExists(chat_id) /\ gone = "error"
       THEN Finish(r, HTTPException(500))
       ELSE IF role_id \notin 1..Len(roles)
       THEN Finish(r, HTTPException(500))
       ELSE \E chat_history_db \in OrderedBy(messages[chat_id]) :
              LET llm_chat_history ==
                    [i \in 1..Len(chat_history_db) |->
                       [sender_type |-> chat_history_db[i].sender_type,
                        content |-> chat_history_db[i].content]]
              IN Goto(r, arg[r], "send_ai_write",
                      [at |-> "get_qwen_response",
                       current_message_count |-> loc[r].current_message_count,
                       messages |-> BuildMessages(roles[role_id].system_prompt,
                                                  llm_chat_history, arg[r].content,
                                                  roles[role_id].few_shot_examples)])
  /\ UNCHANGED <<users, roles, chats, messages, nextChat, llm>>

\* the route declares no status_code (line 205): a returned row goes out as 200
SendStatus == 200

\* llm_service.py:76-80 and lines 248-258: the call ends, get_qwen_response
\* returns; insert the AI message at count + 1, commit, return it
send_message_ai(r, outcome) ==
  LET chat_id == arg[r].chat_id
      ai_response_content == QwenReturn(outcome)
      row == Message("ai", ai_response_content, loc[r].current_message_count + 1) IN
  /\ pc[r] = "send_ai_write"
  /\ \E null \in NullReactions :
       IF \/ ~ParentKeyHolds(chat_id)
          \/ row.content = None /\ null = "error"
       THEN /\ Finish(r, HTTPException(500))
            /\ UNCHANGED messages
       ELSE /\ messages' = InsertMessage(chat_id, row)
            /\ Finish(r, [status |-> SendStatus, body |-> row])
  /\ UNCHANGED <<users, roles, chats, nextChat, llm>>

\* ------------------------------------------- main.py:260-279 delete_chats_bulk
\* lines 264-267 with the user_id filter left out
ChatsToDeleteAnyUser(chat_ids, user) ==
  {c \in chats : c.id \in chat_ids}

\* lines 264-267
ChatsToDelete(chat_ids, user) ==
  {c \in chats : c.id \in chat_ids /\ c.user_id = user}

\* lines 277-279: `except Exception` also catches the HTTPException raised
\* inside the try block, and raises a 500 in its place
DeleteExcept(raised) == HTTPException(500)

\* db.delete(chat): the chat row and, by the relationship's cascade, its messages
DeleteCascade(doomed) ==
  [c \in ChatIds |-> IF \E d \in doomed : d.id = c THEN <<>> ELSE messages[c]]

delete_chats_bulk(user, chat_ids) ==
  LET chats_to_delete == ChatsToDelete(chat_ids, user) IN
  /\ IF chats_to_delete = {}
     THEN /\ Answer("delete_chats_bulk", DeleteExcept(HTTPException(404)))
          /\ UNCHANGED <<chats, messages>>
     ELSE /\ chats' = chats \ chats_to_delete
          /\ messages' = DeleteCascade(chats_to_delete)
          /\ Answer("delete_chats_bulk", [status |-> 204])
  /\ UNCHANGED <<users, roles, nextChat, llm>>

\* ------------------------------------------------------------- environment
\* A handler stops between two of its steps (the process ends, the request
\* is cancelled): what it committed stays, nothing more is written.
Stop(r) ==
  /\ pc[r] # "idle"
  /\ pc' = [pc EXCEPT ![r] = "idle"]
  /\ arg' = [arg EXCEPT ![r] = NoArg]
  /\ loc' = [loc EXCEPT ![r] = NoLoc]
  /\ UNCHANGED <<users, roles, chats, messages, nextChat, response, llm>>

CreateChat == \E r \in Reqs, u \in Callers, role_id \in RoleIds, t \in Titles :
                create_chat(r, u, role_id, t)
CreateChatGreeting == \E r \in Reqs : create_chat_greeting(r)
SendMessage == \E r \in Reqs, u \in Callers, c \in ChatIds, t \in Texts :
                 send_message(r, u, c, t)
SendMessageLLM == \E r \in Reqs : send_message_llm(r)
SendMessageAI == \E r \in Reqs, outcome \in Outcomes : send_message_ai(r, outcome)
DeleteChatsBulk == \E u \in Callers, ids \in SUBSET ChatIds : delete_chats_bulk(u, ids)
StopHandler == \E r \in Reqs : Stop(r)

Next ==
  \/ CreateChat
  \/ CreateChatGreeting
  \/ SendMessage
  \/ SendMessageLLM
  \/ SendMessageAI
  \/ DeleteChatsBulk
  \/ StopHandler

Spec == Init /\ [][Next]_vars

\* Spec with the sends of one chat serialised by the callers: a send starts
\* on a chat only when no other send on that chat is under way.
SendInFlight(chat_id) ==
  \E q \in Reqs : pc[q] \in {"send_llm", "send_ai_write"} /\ arg[q].chat_id = chat_id

SendMessageSerial ==
  \E r \in Reqs, u \in Callers, c \in ChatIds, t \in Texts :
    ~SendInFlight(c) /\ send_message(r, u, c, t)

NextSerial ==
  \/ CreateChat
  \/ CreateChatGreeting
  \/ SendMessageSerial
  \/ SendMessageLLM
  \/ SendMessageAI
  \/ DeleteChatsBulk
  \/ StopHandler

SpecSerial == Init /\ [][NextSerial]_vars

\* ------------------------------------------------ main.py:93-111 register_user
Usernames == {"ann", "ben", "cy"}
Emails == {"ann@x", "ben@x", "cy@x"}
Passwords == {"pw"}

\* line 95: auth.get_user_by_username(db, username)
UserByUsername(username) == {u \in users : u.username = username}
\* line 98 finding nobody
UserByEmailNobody(email) == {}

\* line 98: auth.get_user_by_email(db, email)
UserByEmail(email) == {u \in users : u.email = email}
\* line 102: auth.get_password_hash(password)
PasswordHash(password) == <<"hash", password>>

register_user(username, email, password) ==
  /\ IF UserByUsername(username) # {}
     THEN /\ Respond("register_user", HTTPException(400) @@ [detail |-> "Username already registered"])
          /\ UNCHANGED users
     ELSE IF UserByEmail(email) # {}
     THEN /\ Respond("register_user", HTTPException(400) @@ [detail |-> "Email already registered"])
          /\ UNCHANGED users
     ELSE /\ Cardinality(users) < MaxUsers
          /\ users' = users \cup {[id |-> Cardinality(users) + 1, username |-> username,
                                   email |-> email, hashed_password |-> PasswordHash(password)]}
          /\ Respond("register_user", [status |-> 201, body |-> Cardinality(users) + 1])
  /\ UNCHANGED <<roles, chats, messages, nextChat, pc, arg, loc, llm>>

Register == \E u \in Usernames, e \in Emails, p \in Passwords : register_user(u, e, p)

NextReg == Register

SpecReg == Init /\ [][NextReg]_vars

\* -------------------------------------- get_qwen_response called on its own
MaxExamples == 2
MaxHistory == 2

SeqsUpTo(S, n) == UNION {[1..k -> S] : k \in 0..n}

Prompts == {<<"P1">>}
ExampleDicts ==
  {[user |-> <<"u1">>, ai |-> <<"a1">>], [user |-> <<"u2">>], [ai |-> <<"a3">>]}
ExampleLists == {None} \cup SeqsUpTo(ExampleDicts, MaxExamples)
HistoryRows ==
  {[sender_type |-> k, content |-> t] : k \in {"user", "ai"}, t \in {<<"hi">>, <<"hey">>}}
Histories == SeqsUpTo(HistoryRows, MaxHistory)
NewTexts == {<<"bye">>, <<"hi">>}

InitLLM ==
  /\ users = {}
  /\ roles = Catalog
  /\ chats = {}
  /\ messages = [c \in ChatIds |-> <<>>]
  /\ nextChat = 1
  /\ pc = [r \in Reqs |-> "idle"]
  /\ arg = [r \in Reqs |-> NoArg]
  /\ loc = [r \in Reqs |-> NoLoc]
  /\ response = NoResponse
  /\ \E sp \in Prompts, ex \in ExampleLists, h \in Histories, t \in NewTexts, o \in Outcomes :
       llm = [at |-> "call", system_prompt |-> sp, few_shot_examples |-> ex,
              chat_history |-> h, user_message |-> t, outcome |-> o]

\* llm_service.py:39-80, one call from its arguments to its return value
get_qwen_response ==
  /\ llm.at = "call"
  /\ llm' = [at |-> "return",
             system_prompt |-> llm.system_prompt,
             few_shot_examples |-> llm.few_shot_examples,
             chat_history |-> llm.chat_history,
             user_message |-> llm.user_message,
             outcome |-> llm.outcome,
             messages |-> BuildMessages(llm.system_prompt, llm.chat_history,
                                        llm.user_message, llm.few_shot_examples),
             result |-> QwenReturn(llm.outcome)]
  /\ UNCHANGED <<users, roles, chats, messages, nextChat, pc, arg, loc, response>>

NextLLM == get_qwen_response

SpecLLM == InitLLM /\ [][NextLLM]_vars

\* ------------------------------------------------------------------ claims
Positions(q) == {q[i].order_in_chat : i \in 1..Len(q)}

\* C1: in every reachable state with the sends of each chat serialised
\* (SpecSerial), the position indices of the messages of every chat are
\* exactly 0..count-1, and a message at index 0 has sender kind 'ai'.
C1_PositionsGapless ==
  \A c \in chats :
    LET q == messages[c.id] IN
    /\ Positions(q) = 0..(Len(q) - 1)
    /\ \A i \in 1..Len(q) : q[i].order_in_chat = 0 => q[i].sender_type = "ai"

\* C2: in every reachable state every persisted chat has a message at
\* position 0 with sender kind 'ai' whose content contains its role's name.
C2_ChatHasGreeting ==
  \A c \in chats :
    \E i \in 1..Len(messages[c.id]) :
      LET m == messages[c.id][i] IN
      /\ m.order_in_chat = 0
      /\ m.sender_type = "ai"
      /\ IsStr(m.content)
      /\ Contains(m.content, roles[c.role_id].name)

\* C3: a bulk delete whose id list names no chat owned by the caller answers
\* 404 and deletes nothing.
C3_NoneOwnedIs404 ==
  [][\A u \in Callers, ids \in SUBSET ChatIds :
       (/\ delete_chats_bulk(u, ids)
        /\ \A c \in chats : ~(c.id \in ids /\ c.user_id = u))
       => /\ response'.status = 404
          /\ chats' = chats
          /\ messages' = messages]_vars

\* C4: a send on a chat id that does not exist or that the caller does not
\* own answers 404, ends there (the handler takes no slot, so it never
\* reaches the gateway call), and leaves every message row as it was.
C4_SendNotOwned ==
  [][\A r \in Reqs, u \in Callers, id \in ChatIds, t \in Texts :
       (/\ send_message(r, u, id, t)
        /\ \A c \in chats : ~(c.id = id /\ c.user_id = u))
       => /\ response' = [op |-> "send_message", status |-> 404]
          /\ pc' = pc /\ arg' = arg /\ loc' = loc
          /\ chats' = chats
          /\ messages' = messages]_vars

\* a send was answered 404 while a chat with messages was persisted
C4_Witness ==
  /\ response = [op |-> "send_message", status |-> 404]
  /\ \E c \in chats : Len(messages[c.id]) > 0

\* What the claim says of a send whose gateway call raises, with the status
\* left open: the handler answers `status` with the AI row whose content is
\* the fallback string, and that row is appended to the chat at the index
\* after the one of the user message this send wrote.
C5_FallbackReply(status) ==
  \A r \in Reqs, o \in Outcomes :
    (/\ o.raises
     /\ pc[r] = "send_ai_write"
     /\ ChatExists(arg[r].chat_id)
     /\ send_message_ai(r, o))
    => \E n \in 0..MaxRows :
         LET id == arg[r].chat_id
             row == Message("ai", Fallback, n + 1) IN
         /\ \E i \in 1..Len(messages[id]) :
              messages[id][i] = Message("user", arg[r].content, n)
         /\ response' = [op |-> "send_message", status |-> status, body |-> row]
         /\ messages' = [messages EXCEPT ![id] = Append(@, row)]

\* C5 as stated: when the gateway raises during a send on a chat the caller
\* owns, the send answers 201 with the fallback AI row, persisted at the
\* index after its user message.
C5_Original201 == [][C5_FallbackReply(201)]_vars

\* C5 as amended: when the gateway raises during a send and the chat still
\* exists when the reply is written, the send answers 200 with the fallback
\* AI row, persisted at the index after its user message.
C5_GatewayRaises == [][C5_FallbackReply(200)]_vars

\* a send was answered with the fallback row, which stands in its chat
\* right after a user row
C5_Witness ==
  /\ response.op = "send_message"
  /\ response.status = 200
  /\ response.body.content = Fallback
  /\ \E c \in chats :
       LET q == messages[c.id] IN
       /\ Len(q) >= 2
       /\ q[Len(q)] = response.body
       /\ q[Len(q) - 1].sender_type = "user"
       /\ q[Len(q) - 1].order_in_chat + 1 = response.body.order_in_chat

\* C6: a bulk delete whose list names at least one chat of the caller (with
\* or without chats of other users in it) answers 204 and deletes exactly the
\* caller's chats it names, with their messages; every other chat and its
\* messages stay as they were.
C6_BulkDeleteFrame ==
  [][\A u \in Callers, ids \in SUBSET ChatIds :
       (/\ delete_chats_bulk(u, ids)
        /\ \E c \in chats : c.id \in ids /\ c.user_id = u)
       => /\ response'.status = 204
          /\ chats' = {c \in chats : ~(c.id \in ids /\ c.user_id = u)}
          /\ \A c \in chats :
               IF c.id \in ids /\ c.user_id = u
               THEN messages'[c.id] = <<>>
               ELSE messages'[c.id] = messages[c.id]]_vars

\* a bulk delete was answered 204, a chat is gone, and a chat of each kind
\* the frame is about is still there with its messages
C6_Witness ==
  /\ response = [op |-> "delete_chats_bulk", status |-> 204]
  /\ Cardinality(chats) < nextChat - 1
  /\ \E c \in chats : Len(messages[c.id]) > 0

\* the turns the examples give, counted
SideCount(example) ==
  (IF "user" \in DOMAIN example THEN 1 ELSE 0) + (IF "ai" \in DOMAIN example THEN 1 ELSE 0)

RECURSIVE SidesBefore(_, _)
SidesBefore(examples, k) ==
  IF k <= 1 THEN 0 ELSE SidesBefore(examples, k - 1) + SideCount(examples[k - 1])

\* C7: the turn list of a get_qwen_response call, position by position: the
\* system turn first; each example's user turn and assistant turn at the
\* places left by the sides of the examples before it, a missing side taking
\* no place; then the history, one turn a message, 'ai' as assistant; the new
\* text last; and nothing else.
C7_TurnList ==
  llm.at = "return" =>
    LET m == llm.messages
        ex == IF llm.few_shot_examples = None THEN <<>> ELSE llm.few_shot_examples
        h == llm.chat_history
        E == SidesBefore(ex, Len(ex) + 1) IN
    /\ Len(m) = 1 + E + Len(h) + 1
    /\ m[1] = [role |-> "system", content |-> llm.system_prompt]
    /\ \A k \in 1..Len(ex) :
         LET at == 1 + SidesBefore(ex, k)
             hasUser == "user" \in DOMAIN ex[k] IN
         /\ hasUser => m[at + 1] = [role |-> "user", content |-> ex[k].user]
         /\ "ai" \in DOMAIN ex[k] =>
              m[at + (IF hasUser THEN 2 ELSE 1)] = [role |-> "assistant", content |-> ex[k].ai]
    /\ \A i \in 1..Len(h) :
         m[1 + E + i] = [role |-> IF h[i].sender_type = "user" THEN "user"
                                  ELSE IF h[i].sender_type = "ai" THEN "assistant"
                                  ELSE "none",
                         content |-> h[i].content]
    /\ m[Len(m)] = [role |-> "user", content |-> llm.user_message]

\* a call has returned whose examples hold a one-sided example and a
\* two-sided one, with a history of two messages
C7_Witness ==
  /\ llm.at = "return"
  /\ llm.few_shot_examples = <<[user |-> <<"u2">>], [user |-> <<"u1">>, ai |-> <<"a1">>]>>
  /\ llm.chat_history = <<[sender_type |-> "user", content |-> <<"hi">>],
                          [sender_type |-> "ai", content |-> <<"hey">>]>>
  /\ llm.user_message = <<"bye">>
  /\ Len(llm.messages) = 7

\* the chat-completion call succeeded with text
SuccessWithText(outcome) ==
  /\ ~outcome.raises
  /\ outcome.choices # None
  /\ Len(outcome.choices) > 0
  /\ outcome.choices[1].message.content # None

\* C8: whatever the chat-completion call does, get_qwen_response returns a
\* string: the model's text on success with text, the fallback string
\* otherwise.
C8_AlwaysString ==
  llm.at = "return" =>
    /\ IsStr(llm.result)
    /\ llm.result = IF SuccessWithText(llm.outcome)
                    THEN llm.outcome.choices[1].message.content
                    ELSE Fallback

\* C9: a register call whose username or email is that of a persisted user
\* is answered 400 and writes no user; no two persisted users share a
\* username, and no two share an email.
C9_RegisterUnique ==
  /\ [](\A x, y \in users : (x.username = y.username \/ x.email = y.email) => x = y)
  /\ [][\A u \in Usernames, e \in Emails, p \in Passwords :
          (/\ register_user(u, e, p)
           /\ \E x \in users : x.username = u \/ x.email = e)
          => /\ response'.op = "register_user"
             /\ response'.status = 400
             /\ users' = users]_vars

\* a register call was refused for its email, with users persisted
C9_Witness ==
  /\ response.op = "register_user"
  /\ response.status = 400
  /\ response.detail = "Email already registered"
  /\ Cardinality(users) >= 2

\* C10: a send writes its user message at the index that is the count of the
\* chat's rows at that moment, whatever other sends are under way, and its
\* AI message at that index plus one, whatever was written in between.
C10_IndexIsCount ==
  /\ [][\A r \in Reqs, u \in Callers, id \in ChatIds, t \in Texts :
          (/\ \E c \in chats : c.id = id /\ c.user_id = u
           /\ pc[r] # pc'[r]
           /\ send_message(r, u, id, t))
          => /\ messages' = [messages EXCEPT
                               ![id] = Append(@, Message("user", t, Len(messages[id])))]
             /\ loc'[r].current_message_count = Len(messages[id])]_vars
  /\ [][\A r \in Reqs, o \in Outcomes :
          (/\ pc[r] = "send_ai_write"
           /\ messages' # messages
           /\ send_message_ai(r, o))
          => \E n \in 0..MaxRows :
               /\ \E i \in 1..Len(messages[arg[r].chat_id]) :
                    messages[arg[r].chat_id][i] = Message("user", arg[r].content, n)
               /\ messages' = [messages EXCEPT
                                 ![arg[r].chat_id] = Append(@, Message("ai", QwenReturn(o), n + 1))]]_vars

\* a chat that was created whole, two of whose messages carry one index
C10_Witness ==
  \E c \in chats :
    LET q == messages[c.id] IN
    /\ Len(q) >= 1
    /\ q[1].sender_type = "ai" /\ q[1].order_in_chat = 0
    /\ \E i, j \in 1..Len(q) : i < j /\ q[i].order_in_chat = q[j].order_in_chat


\* q is a prefix of q2
IsPrefix(q, q2) == Len(q) <= Len(q2) /\ SubSeq(q2, 1, Len(q)) = q

\* While a send waits for its gateway call or for the reply, its user
\* message stands in the chat at index N and no row has index N + 1.
C11_UserBeforeCall ==
  \A r \in Reqs :
    (pc[r] \in {"send_llm", "send_ai_write"} /\ ChatExists(arg[r].chat_id))
    => LET q == messages[arg[r].chat_id]
           N == loc[r].current_message_count IN
       /\ Len(q) > N
       /\ q[N + 1] = Message("user", arg[r].content, N)
       /\ \A i \in 1..Len(q) : q[i].order_in_chat # N + 1

\* The step that makes the gateway call writes no message; an 'ai' row is
\* added to a chat only by the greeting step of create_chat or by the step
\* of a send that follows its gateway call, and that step appends the reply
\* it obtained at index N + 1.
C11_ReplyAfterCall ==
  /\ \A r \in Reqs :
       (pc[r] = "send_llm" /\ pc'[r] # pc[r] /\ send_message_llm(r))
       => messages' = messages
  /\ \A id \in ChatIds :
       LET q2 == messages'[id] IN
       (Len(q2) > Len(messages[id]) /\ q2[Len(q2)].sender_type = "ai")
       => \/ \E r \in Reqs : pc[r] = "create_chat_greeting" /\ pc'[r] = "idle"
          \/ \E r \in Reqs, o \in Outcomes :
               /\ pc[r] = "send_ai_write"
               /\ arg[r].chat_id = id
               /\ pc'[r] = "idle"
               /\ q2 = Append(messages[id],
                              Message("ai", QwenReturn(o), loc[r].current_message_count + 1))

\* A send that starts on a chat whose last message is an unanswered user
\* message at index N appends its user message at index N + 1, and its
\* reply, when written, at index N + 2.
C11_RetryAppends ==
  /\ \A r \in Reqs, u \in Callers, id \in ChatIds, t \in Texts :
       LET q == messages[id] IN
       (/\ pc[r] # pc'[r]
        /\ \E c \in chats : c.id = id /\ c.user_id = u
        /\ q # <<>>
        /\ q[Len(q)].sender_type = "user"
        /\ ~SendInFlight(id)
        /\ send_message(r, u, id, t))
       => messages' = [messages EXCEPT
                         ![id] = Append(@, Message("user", t, q[Len(q)].order_in_chat + 1))]
  /\ \A r \in Reqs, o \in Outcomes :
       LET q == messages[arg[r].chat_id] IN
       (/\ pc[r] = "send_ai_write"
        /\ messages' # messages
        /\ Len(q) >= 2
        /\ q[Len(q)] = Message("user", arg[r].content, loc[r].current_message_count)
        /\ q[Len(q) - 1].sender_type = "user"
        /\ send_message_ai(r, o))
       => messages' = [messages EXCEPT
                         ![arg[r].chat_id] =
                           Append(@, Message("ai", QwenReturn(o),
                                             q[Len(q) - 1].order_in_chat + 2))]

\* The messages of a chat that stays are only ever extended at the end; the
\* messages of a chat go only with the chat.
C11_AppendOnly ==
  \A id \in ChatIds :
    IF ChatExists(id) /\ (\E c \in chats' : c.id = id)
    THEN IsPrefix(messages[id], messages'[id])
    ELSE messages'[id] # messages[id] =>
           \/ messages[id] = <<>>
           \/ ChatExists(id) /\ messages'[id] = <<>>

C12_NewTextOnce ==
  [][\A r \in Reqs :
       (/\ pc[r] = "send_llm"
        /\ pc'[r] = "send_ai_write"
        /\ ChatExists(arg[r].chat_id)
        /\ send_message_llm(r))
       => LET role == roles[loc[r].role_id]
              prior == SubSeq(messages[arg[r].chat_id], 1, loc[r].current_message_count)
          IN \E h \in OrderedBy(prior) :
               loc'[r].messages =
                 BuildMessages(role.system_prompt, h, arg[r].content,
                               role.few_shot_examples)]_vars

====
